---- MODULE Spec2Model ----
(***************************************************************************)
(* A model of walrus/client.py: WalrusClient, its eight public operations, *)
(* the query-parameter builder and the error normalisation, together with  *)
(* the parts of the HTTP transport (requests) the client's code rests on.  *)
(*                                                                         *)
(* Text is modelled as a sequence of string fragments (a URL as one        *)
(* fragment per character), bytes as a sequence over Byte, Python's None   *)
(* as the empty sequence and a present value v as <<v>>.                   *)
(***************************************************************************)
EXTENDS Integers, Sequences, FiniteSets, TLC

VARIABLES
    publisher_base_url,   \* self.publisher_base_url
    aggregator_base_url,  \* self.aggregator_base_url
    ctor,                 \* the arguments the client was constructed from
    fs,                   \* the local file system: path -> node
    store,                \* the blobs the remote service holds
    uploads,              \* history: what the caller uploaded to the service
    pc,                   \* "idle", or "streaming" inside get_blob_as_file's loop
    call,                 \* the operation last called, with its arguments
    sent,                 \* the HTTP requests that call has issued
    exchange,             \* how the HTTP exchange of that call went
    pending,              \* body octets get_blob_as_file has still to receive
    respOpen,             \* the call's network response is open
    fileOpen,             \* get_blob_as_file's destination file is open
    outcome,              \* what the call returned or raised
    params                \* what the last _build_query_params call returned

vars == <<publisher_base_url, aggregator_base_url, ctor, fs, store, uploads, pc, call,
          sent, exchange, pending, respOpen, fileOpen, outcome, params>>

----------------------------------------------------------------------------
(* Bounds *)

MaxLen == 2
MaxBlobs == 1
MaxUrlLen == 3
MaxEpochs == 11

----------------------------------------------------------------------------
(* Values *)

None == <<>>
Some(v) == <<v>>

Byte == {0, 1}
Bytes == UNION {[1..n -> Byte] : n \in 0..MaxLen}

Min(a, b) == IF a < b THEN a ELSE b

Digit(d) ==
    CASE d = 0 -> "0" [] d = 1 -> "1" [] d = 2 -> "2" [] d = 3 -> "3"
      [] d = 4 -> "4" [] d = 5 -> "5" [] d = 6 -> "6" [] d = 7 -> "7"
      [] d = 8 -> "8" [] d = 9 -> "9"

RECURSIVE Digits(_)
Digits(n) == IF n < 10 THEN <<Digit(n)>> ELSE Digits(n \div 10) \o <<Digit(n % 10)>>

\* str(n) of a Python int
str(n) == IF n < 0 THEN <<"-">> \o Digits(0 - n) ELSE Digits(n)

----------------------------------------------------------------------------
(* WalrusClient.__init__ *)

\* Variant: a single trailing "/" is removed
rstrip_once(s) ==
    IF s # <<>> /\ s[Len(s)] = "/" THEN SubSeq(s, 1, Len(s) - 1) ELSE s

\* str.rstrip("/"): every trailing "/" is removed
RECURSIVE rstrip(_)
rstrip(s) ==
    IF s # <<>> /\ s[Len(s)] = "/" THEN rstrip(SubSeq(s, 1, Len(s) - 1)) ELSE s

UrlChars == {"h", "/"}
Urls == UNION {[1..n -> UrlChars] : n \in 0..MaxUrlLen}

DefaultTimeout == 30

\* __init__(publisher_base_url, aggregator_base_url, timeout): the fields
__init__(publisher, aggregator, timeout) ==
    [publisher_base_url |-> rstrip(publisher),
     aggregator_base_url |-> rstrip(aggregator),
     timeout |-> timeout]

----------------------------------------------------------------------------
(* WalrusClient._build_query_params *)

EmptyDict == [k \in {} |-> <<>>]
SetItem(d, k, v) == [x \in (DOMAIN d) \cup {k} |-> IF x = k THEN v ELSE d[x]]

\* Variant: deletable is sent only when it is true
_build_query_params_truthy(encoding_type, epochs, deletable, send_object_to) ==
    LET p0 == EmptyDict
        p1 == IF encoding_type # None
              THEN SetItem(p0, "encoding_type", <<encoding_type[1]>>) ELSE p0
        p2 == IF epochs # None
              THEN SetItem(p1, "epochs", str(epochs[1])) ELSE p1
        p3 == IF deletable # None /\ deletable[1]
              THEN SetItem(p2, "deletable", <<"true">>) ELSE p2
        p4 == IF send_object_to # None
              THEN SetItem(p3, "send_object_to", <<send_object_to[1]>>) ELSE p3
    IN  p4

_build_query_params(encoding_type, epochs, deletable, send_object_to) ==
    LET p0 == EmptyDict
        p1 == IF encoding_type # None
              THEN SetItem(p0, "encoding_type", <<encoding_type[1]>>) ELSE p0
        p2 == IF epochs # None
              THEN SetItem(p1, "epochs", str(epochs[1])) ELSE p1
        p3 == IF deletable # None
              THEN SetItem(p2, "deletable",
                           IF deletable[1] THEN <<"true">> ELSE <<"false">>)
              ELSE p2
        p4 == IF send_object_to # None
              THEN SetItem(p3, "send_object_to", <<send_object_to[1]>>) ELSE p3
    IN  p4

EncodingTypes == {None, Some("RS2"), Some("")}
EpochValues == {None} \cup {Some(n) : n \in -1..MaxEpochs}
DeletableValues == {None, Some(TRUE), Some(FALSE)}
SendObjectToValues == {None, Some("0xabc")}

UploadOptions ==
    [encoding_type : EncodingTypes, epochs : EpochValues,
     deletable : DeletableValues, send_object_to : SendObjectToValues]

NoOptions ==
    [encoding_type |-> None, epochs |-> None, deletable |-> None,
     send_object_to |-> None]

----------------------------------------------------------------------------
(* The requests the operations issue *)

NoBody == <<>>

Request(method, url, query, body, stream) ==
    [method |-> method, url |-> url, params |-> query, body |-> body,
     stream |-> stream]

\* put_blob and put_blob_from_stream: url, headers, params
put_request(body, o) ==
    Request("PUT", publisher_base_url \o <<"/v1/blobs">>,
            _build_query_params(o.encoding_type, o.epochs, o.deletable,
                                o.send_object_to),
            body, FALSE)

get_blob_by_object_id_request(object_id) ==
    Request("GET", aggregator_base_url \o <<"/v1/blobs/by-object-id/", object_id>>,
            EmptyDict, NoBody, FALSE)

get_blob_request(blob_id) ==
    Request("GET", aggregator_base_url \o <<"/v1/blobs/", blob_id>>,
            EmptyDict, NoBody, FALSE)

\* get_blob_as_stream and get_blob_as_file: stream=True
get_blob_streamed_request(blob_id) ==
    Request("GET", aggregator_base_url \o <<"/v1/blobs/", blob_id>>,
            EmptyDict, NoBody, TRUE)

get_blob_metadata_request(blob_id) ==
    Request("HEAD", aggregator_base_url \o <<"/v1/blobs/", blob_id>>,
            EmptyDict, NoBody, FALSE)

----------------------------------------------------------------------------
(* The transport: responses, and what the client's code reads from them *)

\* The inner mapping of an error body: keys names the fields it carries.
ErrFields == {"code", "status", "message", "details"}

ErrMapping(ks) ==
    [keys |-> ks,
     code |-> IF "code" \in ks THEN 404 ELSE 0,
     status |-> IF "status" \in ks THEN "NOT_FOUND" ELSE "",
     message |-> IF "message" \in ks THEN <<"blob not found">> ELSE <<>>,
     details |-> IF "details" \in ks THEN <<"detail">> ELSE <<>>]

\* Variant: the default, whatever the mapping holds
get_default(d, key, default) == default

\* dict.get(key, default)
get(d, key, default) == IF key \in d.keys THEN d[key] ELSE default

\* What Response.json() makes of a body. valid: the octets are JSON; top: the
\* kind of the JSON value; keys: the keys of a top-level mapping; errType: the
\* kind of the value under "error", and err that value when it is a mapping.
Doc(valid, top, keys, errType, err, blobId, objectId) ==
    [valid |-> valid, top |-> top, keys |-> keys, errType |-> errType,
     err |-> err, blobId |-> blobId, objectId |-> objectId]

InvalidDoc == Doc(FALSE, "-", {}, "-", ErrMapping({}), "", "")
ListDoc == Doc(TRUE, "list", {}, "-", ErrMapping({}), "", "")
UploadDoc(blobId, objectId) ==
    Doc(TRUE, "obj", {"newlyCreated"}, "-", ErrMapping({}), blobId, objectId)
ErrorDoc(errType, err) == Doc(TRUE, "obj", {"error"}, errType, err, "", "")

\* The octets of a JSON document, kept only as far as the client looks at
\* them: they are not empty, and they are passed through.
JsonOctets == <<123, 125>>

Body(raw, doc) == [raw |-> raw, doc |-> doc]
EmptyBody == Body(<<>>, InvalidDoc)

NonMappingErrTypes == {"str", "list", "num", "null"}

\* Bodies of a response that carries the blob, or the upload's result
SuccessBodies ==
    {Body(b, InvalidDoc) : b \in Bytes}
    \cup {Body(JsonOctets, ListDoc), Body(JsonOctets, UploadDoc("b1", "0x1"))}

\* Bodies of any other response: none, text, JSON of every shape
ErrorBodies ==
    {EmptyBody, Body(<<0>>, InvalidDoc)}
    \cup {Body(JsonOctets, ListDoc), Body(JsonOctets, UploadDoc("b1", "0x1"))}
    \cup {Body(JsonOctets, ErrorDoc(t, ErrMapping({}))) : t \in NonMappingErrTypes}
    \cup {Body(JsonOctets, ErrorDoc("obj", ErrMapping(ks))) : ks \in SUBSET ErrFields}

StatusCodes == {200, 300, 404, 500}

ReasonPhrase(status_code) ==
    CASE status_code = 200 -> "OK"
      [] status_code = 300 -> "Multiple Choices"
      [] status_code = 404 -> "Not Found"
      [] status_code = 500 -> "Internal Server Error"

Response(status_code, reason, body, etag, streamed) ==
    [status_code |-> status_code, reason |-> reason, body |-> body,
     etag |-> etag, streamed |-> streamed, closed |-> FALSE]

\* Variant: closing leaves the body readable
close_noop(response) == response

\* Response.close(), as the with statement of get_blob_as_file calls it
close(response) == [response EXCEPT !.closed = TRUE]

\* Response.content: the body; of a streamed response closed before its body
\* was read, nothing
content(response) ==
    IF response.streamed /\ response.closed THEN <<>> ELSE response.body.raw

\* Response.json() raises JSONDecodeError unless the content is JSON
json_decodes(response) == content(response) # <<>> /\ response.body.doc.valid

\* Response.raise_for_status() raises HTTPError for 4xx and 5xx
raise_for_status(response) ==
    response.status_code >= 400 /\ response.status_code < 600

\* RequestException and its subclasses: each carries its response, or None
Exception(type, response, text) ==
    [type |-> type, response |-> response, text |-> text]

HTTPError(response) ==
    Exception("HTTPError", Some(response), <<"HTTPError">>)
ConnectionError(text) == Exception("ConnectionError", None, text)
\* requests.exceptions.JSONDecodeError is an InvalidJSONError, a RequestException
JSONDecodeError == Exception("JSONDecodeError", None, <<"Expecting value">>)

----------------------------------------------------------------------------
(* Outcomes of a call *)

Value(t, b, doc, etag) == [t |-> t, b |-> b, doc |-> doc, etag |-> etag]
NoValue == Value("none", <<>>, InvalidDoc, "")

Outcome(kind, exc, code, status, message, details, context, value) ==
    [kind |-> kind, exc |-> exc, code |-> code, status |-> status,
     message |-> message, details |-> details, context |-> context,
     value |-> value]

NoOutcome == Outcome("none", "", 0, "", <<>>, <<>>, <<>>, NoValue)
Running == Outcome("running", "", 0, "", <<>>, <<>>, <<>>, NoValue)
Return(value) == Outcome("return", "", 0, "", <<>>, <<>>, <<>>, value)
Raise(exc) == Outcome("raise", exc, 0, "", <<>>, <<>>, <<>>, NoValue)

WalrusAPIError(code, status, message, details, context) ==
    Outcome("raise", "WalrusAPIError", code, status, message, details, context,
            NoValue)

----------------------------------------------------------------------------
(* WalrusClient._handle_request_error *)

\* lines 319-325 and 327-333: the HTTP response's own status and reason
fallback_error(response, context) ==
    LET code == response.status_code
        status == IF response.reason # "" THEN response.reason ELSE "UNKNOWN"
    IN  WalrusAPIError(code, status,
                       <<"HTTP ">> \o str(code) \o <<": ", status>>, <<>>,
                       context)

_handle_request_error(exception, context) ==
    IF exception.response # None
    THEN LET response == exception.response[1]
             error_json == response.body.doc
         IN  IF content(response) # <<>>
             THEN IF ~json_decodes(response)
                  THEN fallback_error(response, context)
                  ELSE IF error_json.top = "obj" /\ "error" \in error_json.keys
                       THEN IF error_json.errType = "obj"
                            THEN LET err == error_json.err
                                 IN  WalrusAPIError(
                                         get(err, "code", response.status_code),
                                         get(err, "status", "UNKNOWN"),
                                         get(err, "message", <<>>),
                                         get(err, "details", <<>>),
                                         context)
                            \* err.get on a str, list, number or None
                            ELSE Raise("AttributeError")
                       ELSE fallback_error(response, context)
             ELSE fallback_error(response, context)
    ELSE WalrusAPIError(500, "REQUEST_FAILED", exception.text, <<>>, context)

----------------------------------------------------------------------------
(* The local file system and the caller's streams *)

Paths == {"f", "d"}

File(data) == [type |-> "file", content |-> data]
Missing == [type |-> "missing", content |-> <<>>]
Directory == [type |-> "dir", content |-> <<>>]

\* Variant: os.path.exists
isfile_exists(path) == fs[path].type # "missing"

\* os.path.isfile
isfile(path) == fs[path].type = "file"

\* open(path, "wb") succeeds unless the path is a directory
opens_for_writing(path) == fs[path].type # "dir"

Stream(data, pos, readable) == [data |-> data, pos |-> pos, readable |-> readable]
NoStream == Stream(<<>>, 0, FALSE)

Streams ==
    {st \in {Stream(d, p, TRUE) : d \in Bytes, p \in 0..MaxLen} :
        st.pos <= Len(st.data)}
    \cup {NoStream}

\* Variant: the stream is sent from its start
read_from_start(data, pos) == data

\* The body the transport sends for data=stream: what the stream yields from
\* its position to its end
RECURSIVE read_to_end(_, _)
read_to_end(data, pos) ==
    IF pos >= Len(data) THEN <<>>
    ELSE <<data[pos + 1]>> \o read_to_end(data, pos + 1)

----------------------------------------------------------------------------
(* The remote end *)

\* Where the publisher and the aggregator listen, and the URLs the client is
\* given for them (with a trailing "/", as the tests' fixture gives them).
PublisherUrl == <<"p">>
AggregatorUrl == <<"a">>

BlobIds == <<"b1", "b2", "b3">>
ObjectIds == <<"0x1", "0x2", "0x3">>
IdArguments ==
    {BlobIds[i] : i \in 1..MaxBlobs} \cup {ObjectIds[i] : i \in 1..MaxBlobs}
    \cup {"nonexistent"}

NotFoundBody ==
    Body(JsonOctets, ErrorDoc("obj", ErrMapping(ErrFields)))

\* The service of the tests: it stores the body of a PUT and answers with the
\* new blob's IDs; it serves a stored blob under its blob ID and its object
\* ID, with the blob ID as the ETag; it answers 404 NOT_FOUND for anything else.
service_response(req) ==
    LET not_found == Response(404, "Not Found", NotFoundBody, "", req.stream)
        k == Len(store) + 1
    IN  IF req.method = "PUT"
        THEN IF req.url = PublisherUrl \o <<"/v1/blobs">>
             THEN Response(200, "OK",
                           Body(JsonOctets, UploadDoc(BlobIds[k], ObjectIds[k])),
                           "", req.stream)
             ELSE not_found
        ELSE IF \E i \in 1..Len(store) :
                    \/ req.url = AggregatorUrl \o <<"/v1/blobs/", BlobIds[i]>>
                    \/ req.url = AggregatorUrl
                                   \o <<"/v1/blobs/by-object-id/", ObjectIds[i]>>
             THEN LET i == CHOOSE i \in 1..Len(store) :
                             \/ req.url = AggregatorUrl \o <<"/v1/blobs/", BlobIds[i]>>
                             \/ req.url = AggregatorUrl
                                   \o <<"/v1/blobs/by-object-id/", ObjectIds[i]>>
                  IN  Response(200, "OK", Body(store[i], InvalidDoc), BlobIds[i],
                               req.stream)
             ELSE not_found

Exchange(kind, response, text, service) ==
    [kind |-> kind, response |-> response, text |-> text, service |-> service]

NoExchange == Exchange("none", None, <<>>, FALSE)

\* A HEAD response carries no body.
delivered(req, response) ==
    IF req.method = "HEAD" THEN [response EXCEPT !.body = EmptyBody] ELSE response

\* How the exchange of a request may go. "any": the remote end and the network
\* are arbitrary; "service": the service of the tests answers; "down": no
\* connection can be made.
Replies(env, req) ==
    IF env = "service"
    THEN IF req.method = "PUT" /\ Len(store) >= MaxBlobs THEN {}
         ELSE {Exchange("response", Some(delivered(req, service_response(req))),
                        <<>>, TRUE)}
    ELSE IF env = "down"
    THEN {Exchange("failure", None, <<"connection refused">>, FALSE)}
    ELSE {Exchange("failure", None, <<"connection refused">>, FALSE)}
         \cup {Exchange("response",
                        Some(delivered(req, Response(200, "OK", b, "", req.stream))),
                        <<>>, FALSE) : b \in SuccessBodies}
         \cup {Exchange("response",
                        Some(delivered(req, Response(
                            s, IF r = "" THEN "" ELSE ReasonPhrase(s), b, "",
                            req.stream))),
                        <<>>, FALSE) :
                 s \in StatusCodes \ {200}, r \in {"reason", ""},
                 b \in ErrorBodies}

\* The service's store after the exchange
store_after(x, req) ==
    IF x.service /\ req.method = "PUT" /\ x.response[1].status_code = 200
    THEN Append(store, req.body) ELSE store

\* History: the octets the caller meant to upload, and the operation it used,
\* for each upload the service accepted
uploads_after(x, c, b) ==
    IF x.service /\ x.response[1].status_code = 200
    THEN Append(uploads, [b |-> b, via |-> c.op]) ELSE uploads

----------------------------------------------------------------------------
(* The operations *)

Call(op, data, path, stream, id, o) ==
    [op |-> op, data |-> data, path |-> path, stream |-> stream, id |-> id,
     options |-> o]

NoCall == Call("", <<>>, "", NoStream, "", NoOptions)

\* The caller is free to call an operation.
Idle == pc = "idle" /\ call = NoCall

\* A call that ends in the same step: what it leaves behind.
Ends(c, requests, x, out, open) ==
    /\ pc' = "idle"
    /\ call' = c
    /\ sent' = requests
    /\ exchange' = x
    /\ outcome' = out
    /\ respOpen' = open
    /\ fileOpen' = FALSE
    /\ pending' = <<>>
    /\ UNCHANGED <<publisher_base_url, aggregator_base_url, ctor, fs, params>>

\* lines 80-87 and 156-163: the PUT, raise_for_status, response.json()
upload_outcome(x, context) ==
    IF x.kind = "failure"
    THEN _handle_request_error(ConnectionError(x.text), context)
    ELSE LET response == x.response[1]
         IN  IF raise_for_status(response)
             THEN _handle_request_error(HTTPError(response), context)
             ELSE IF json_decodes(response)
                  THEN Return(Value("json", <<>>, response.body.doc, ""))
                  ELSE _handle_request_error(JSONDecodeError, context)

put_blob_steps(c, data, o, env) ==
    LET req == put_request(data, o)
    IN  \E x \in Replies(env, req) :
            /\ Ends(c, <<req>>, x,
                    upload_outcome(x, <<"Error uploading blob">>), FALSE)
            /\ store' = store_after(x, req)
            /\ uploads' = uploads_after(x, c, data)

put_blob(data, o, env) ==
    /\ Idle
    /\ put_blob_steps(Call("put_blob", data, "", NoStream, "", o), data, o, env)

put_blob_from_file(file_path, o, env) ==
    /\ Idle
    /\ LET c == Call("put_blob_from_file", <<>>, file_path, NoStream, "", o)
       IN
        IF ~isfile(file_path)
        THEN /\ Ends(c, <<>>, NoExchange, Raise("FileNotFoundError"), FALSE)
             /\ UNCHANGED <<store, uploads>>
        ELSE put_blob_steps(c, fs[file_path].content, o, env)

put_blob_from_stream(stream, o, env) ==
    /\ Idle
    /\ LET c == Call("put_blob_from_stream", <<>>, "", stream, "", o)
       IN
        IF ~stream.readable
        THEN /\ Ends(c, <<>>, NoExchange, Raise("ValueError"), FALSE)
             /\ UNCHANGED <<store, uploads>>
        ELSE LET req == put_request(read_to_end(stream.data, stream.pos), o)
             IN  \E x \in Replies(env, req) :
                     /\ Ends(c, <<req>>, x,
                             upload_outcome(
                                 x, <<"Error uploading blob from stream">>),
                             FALSE)
                     /\ store' = store_after(x, req)
                     /\ uploads' = uploads_after(
                            x, c, SubSeq(stream.data, stream.pos + 1,
                                         Len(stream.data)))

\* lines 180-187, 204-211, 227-234, 275-282: the request, raise_for_status,
\* and the value the operation returns
retrieval_outcome(x, value, context) ==
    IF x.kind = "failure"
    THEN _handle_request_error(ConnectionError(x.text), context)
    ELSE LET response == x.response[1]
         IN  IF raise_for_status(response)
             THEN _handle_request_error(HTTPError(response), context)
             ELSE Return(value)

get_blob_by_object_id(object_id, env) ==
    /\ Idle
    /\ LET req == get_blob_by_object_id_request(object_id)
       IN
        \E x \in Replies(env, req) :
            /\ Ends(Call("get_blob_by_object_id", <<>>, "", NoStream, object_id,
                         NoOptions),
                    <<req>>, x,
                    retrieval_outcome(
                        x,
                        IF x.kind = "response"
                        THEN Value("bytes", content(x.response[1]), InvalidDoc, "")
                        ELSE NoValue,
                        <<"Error retrieving blob by object ID: ", object_id>>),
                    FALSE)
            /\ UNCHANGED <<store, uploads>>

get_blob(blob_id, env) ==
    /\ Idle
    /\ LET req == get_blob_request(blob_id)
       IN
        \E x \in Replies(env, req) :
            /\ Ends(Call("get_blob", <<>>, "", NoStream, blob_id, NoOptions),
                    <<req>>, x,
                    retrieval_outcome(
                        x,
                        IF x.kind = "response"
                        THEN Value("bytes", content(x.response[1]), InvalidDoc, "")
                        ELSE NoValue,
                        <<"Error retrieving blob by blob ID: ", blob_id>>),
                    FALSE)
            /\ UNCHANGED <<store, uploads>>

\* The value is response.raw: the open response's body, still to be read.
get_blob_as_stream(blob_id, env) ==
    /\ Idle
    /\ LET req == get_blob_streamed_request(blob_id)
       IN
        \E x \in Replies(env, req) :
            LET out == retrieval_outcome(
                           x,
                           IF x.kind = "response"
                           THEN Value("stream", x.response[1].body.raw,
                                      InvalidDoc, "")
                           ELSE NoValue,
                           <<"Error retrieving blob as stream by blob ID: ",
                             blob_id>>)
            IN  /\ Ends(Call("get_blob_as_stream", <<>>, "", NoStream, blob_id,
                             NoOptions),
                        <<req>>, x, out, out.kind = "return")
                /\ UNCHANGED <<store, uploads>>

get_blob_metadata(blob_id, env) ==
    /\ Idle
    /\ LET req == get_blob_metadata_request(blob_id)
       IN
        \E x \in Replies(env, req) :
            /\ Ends(Call("get_blob_metadata", <<>>, "", NoStream, blob_id,
                         NoOptions),
                    <<req>>, x,
                    retrieval_outcome(
                        x,
                        IF x.kind = "response"
                        THEN Value("headers", <<>>, InvalidDoc,
                                   x.response[1].etag)
                        ELSE NoValue,
                        <<"Error retrieving metadata for blob ID: ", blob_id>>),
                    FALSE)
            /\ UNCHANGED <<store, uploads>>

chunk_size == 8192

\* Variant: leaving the block leaves the resource as it is
exit_without_close(open) == open

\* Response.__exit__ and the file object's __exit__: whatever leaves the block
\* of a with statement, a return or an exception, what the statement acquired
\* is closed
__exit__(open) == FALSE

\* get_blob_as_file up to its loop: the request, raise_for_status and
\* open(file_path, "wb"), each inside the with statement that closes the
\* response on the way out
get_blob_as_file(blob_id, file_path, env) ==
    /\ Idle
    /\ LET req == get_blob_streamed_request(blob_id)
           c == Call("get_blob_as_file", <<>>, file_path, NoStream, blob_id,
                     NoOptions)
           context == <<"Error retrieving blob as file by blob ID: ", blob_id>>
       IN
        \E x \in Replies(env, req) :
            IF x.kind = "failure"
            THEN /\ Ends(c, <<req>>, x,
                         _handle_request_error(ConnectionError(x.text), context),
                         FALSE)
                 /\ UNCHANGED <<store, uploads>>
            ELSE IF raise_for_status(x.response[1])
            THEN /\ Ends(c, <<req>>, x,
                         _handle_request_error(
                             HTTPError(close(x.response[1])), context),
                         __exit__(TRUE))
                 /\ UNCHANGED <<store, uploads>>
            ELSE IF ~opens_for_writing(file_path)
            THEN /\ Ends(c, <<req>>, x, Raise("IsADirectoryError"), __exit__(TRUE))
                 /\ UNCHANGED <<store, uploads>>
            ELSE /\ pc' = "streaming"
                 /\ call' = c
                 /\ sent' = <<req>>
                 /\ exchange' = x
                 /\ outcome' = Running
                 /\ respOpen' = TRUE
                 /\ fileOpen' = TRUE
                 /\ pending' = content(x.response[1])
                 /\ fs' = [fs EXCEPT ![file_path] = File(<<>>)]
                 /\ UNCHANGED <<publisher_base_url, aggregator_base_url, ctor,
                                store, uploads, params>>

\* One turn of the loop: iter_content yields the next n octets (n = 0: an
\* empty chunk, which is not written)
get_blob_as_file_chunk(n) ==
    /\ pc = "streaming"
    /\ n <= Min(chunk_size, Len(pending))
    /\ fs' = [fs EXCEPT ![call.path] =
                File(fs[call.path].content \o SubSeq(pending, 1, n))]
    /\ pending' = SubSeq(pending, n + 1, Len(pending))
    /\ UNCHANGED <<publisher_base_url, aggregator_base_url, ctor, store, uploads, pc,
                   call, sent, exchange, respOpen, fileOpen, outcome, params>>

\* What leaves the loop closes the file and then the response.
Leaves(out) ==
    /\ pc = "streaming"
    /\ pc' = "idle"
    /\ outcome' = out
    /\ fileOpen' = __exit__(fileOpen)
    /\ respOpen' = __exit__(respOpen)
    /\ pending' = <<>>
    /\ UNCHANGED <<publisher_base_url, aggregator_base_url, ctor, fs, store, uploads,
                   call, sent, exchange, params>>

\* iter_content is exhausted: the operation returns None
get_blob_as_file_end ==
    /\ pending = <<>>
    /\ Leaves(Return(NoValue))

\* iter_content raises: the connection broke before the body's end
get_blob_as_file_broken ==
    /\ pending # <<>>
    /\ Leaves(_handle_request_error(
                  ConnectionError(<<"connection broken">>),
                  <<"Error retrieving blob as file by blob ID: ", call.id>>))

\* f.write raises OSError, which no except clause of the operation catches
get_blob_as_file_write_fails ==
    /\ pending # <<>>
    /\ Leaves(Raise("OSError"))

\* The caller has the outcome of its call, and is free to make the next one.
\* (A stream that get_blob_as_stream returned is the caller's to close.)
caller_continues ==
    /\ pc = "idle"
    /\ call # NoCall
    /\ call' = NoCall
    /\ sent' = <<>>
    /\ exchange' = NoExchange
    /\ outcome' = NoOutcome
    /\ respOpen' = FALSE
    /\ params' = EmptyDict
    /\ UNCHANGED <<publisher_base_url, aggregator_base_url, ctor, fs, store, uploads, pc,
                   pending, fileOpen>>

----------------------------------------------------------------------------
(* The client among arbitrary remote ends *)

FixtureClient == __init__(PublisherUrl \o <<"/">>, AggregatorUrl \o <<"/">>,
                          DefaultTimeout)

InitClient(args, self) ==
    /\ ctor = args
    /\ publisher_base_url = self.publisher_base_url
    /\ aggregator_base_url = self.aggregator_base_url

InitRest ==
    /\ store = <<>>
    /\ uploads = <<>>
    /\ pc = "idle"
    /\ call = NoCall
    /\ sent = <<>>
    /\ exchange = NoExchange
    /\ pending = <<>>
    /\ respOpen = FALSE
    /\ fileOpen = FALSE
    /\ outcome = NoOutcome
    /\ params = EmptyDict

FixtureArgs ==
    [publisher |-> PublisherUrl \o <<"/">>,
     aggregator |-> AggregatorUrl \o <<"/">>]

Init ==
    /\ InitClient(FixtureArgs, FixtureClient)
    /\ \E node \in {Missing} \cup {File(b) : b \in Bytes} :
           fs = [p \in Paths |-> IF p = "d" THEN Directory ELSE node]
    /\ InitRest

OptionSamples == {NoOptions, [NoOptions EXCEPT !.deletable = Some(FALSE)]}

Operations(env) ==
    \/ \E data \in Bytes, o \in OptionSamples : put_blob(data, o, env)
    \/ \E path \in Paths, o \in OptionSamples : put_blob_from_file(path, o, env)
    \/ \E stream \in Streams, o \in OptionSamples :
           put_blob_from_stream(stream, o, env)
    \/ \E id \in IdArguments : get_blob_by_object_id(id, env)
    \/ \E id \in IdArguments : get_blob(id, env)
    \/ \E id \in IdArguments : get_blob_as_stream(id, env)
    \/ \E id \in IdArguments, path \in Paths : get_blob_as_file(id, path, env)
    \/ \E n \in 0..MaxLen : get_blob_as_file_chunk(n)
    \/ get_blob_as_file_end
    \/ \E id \in IdArguments : get_blob_metadata(id, env)

Next ==
    \/ Operations("any")
    \/ get_blob_as_file_broken
    \/ get_blob_as_file_write_fails
    \/ caller_continues

Spec == Init /\ [][Next]_vars

----------------------------------------------------------------------------
(* The client and the service of the tests *)

NextService ==
    \/ Operations("service")
    \/ caller_continues

SpecService == Init /\ [][NextService]_vars

----------------------------------------------------------------------------
(* Clients constructed from any base URLs, and the requests they issue *)

InitFixed ==
    /\ InitClient(FixtureArgs, FixtureClient)
    /\ fs = [p \in Paths |-> IF p = "d" THEN Directory ELSE File(<<1>>)]
    /\ InitRest

\* client = WalrusClient(publisher, aggregator)
construct(publisher, aggregator) ==
    /\ Idle
    /\ LET self == __init__(publisher, aggregator, DefaultTimeout)
       IN  /\ publisher_base_url' = self.publisher_base_url
           /\ aggregator_base_url' = self.aggregator_base_url
           /\ ctor' = [publisher |-> publisher, aggregator |-> aggregator]
    /\ UNCHANGED <<fs, store, uploads, pc, call, sent, exchange, pending, respOpen,
                   fileOpen, outcome, params>>

NextUrl ==
    \/ \E publisher \in Urls, aggregator \in Urls :
           construct(publisher, aggregator)
    \/ put_blob(<<1>>, NoOptions, "down")
    \/ put_blob_from_file("f", NoOptions, "down")
    \/ put_blob_from_stream(Stream(<<1>>, 0, TRUE), NoOptions, "down")
    \/ get_blob_by_object_id("0x1", "down")
    \/ get_blob("b1", "down")
    \/ get_blob_as_stream("b1", "down")
    \/ get_blob_as_file("b1", "f", "down")
    \/ get_blob_metadata("b1", "down")
    \/ caller_continues

SpecUrl == InitFixed /\ [][NextUrl]_vars

----------------------------------------------------------------------------
(* _build_query_params over every combination of options *)

build_query_params(o) ==
    /\ Idle
    /\ call' = Call("_build_query_params", <<>>, "", NoStream, "", o)
    /\ params' = _build_query_params(o.encoding_type, o.epochs, o.deletable,
                                     o.send_object_to)
    /\ UNCHANGED <<publisher_base_url, aggregator_base_url, ctor, fs, store, uploads, pc,
                   sent, exchange, pending, respOpen, fileOpen, outcome>>

NextParams ==
    \/ \E o \in UploadOptions : build_query_params(o)
    \/ caller_continues

SpecParams == InitFixed /\ [][NextParams]_vars

----------------------------------------------------------------------------
(* Properties *)

\* A call has ended, with its outcome in the state.
Finished(ops) == pc = "idle" /\ call.op \in ops /\ outcome.kind \in {"return", "raise"}

PublicOps ==
    {"put_blob", "put_blob_from_file", "put_blob_from_stream",
     "get_blob_by_object_id", "get_blob", "get_blob_as_stream",
     "get_blob_as_file", "get_blob_metadata"}

Received == exchange.kind = "response"
TheResponse == exchange.response[1]
Is2xx(response) == response.status_code >= 200 /\ response.status_code < 300
Is4xx5xx(response) == response.status_code >= 400 /\ response.status_code < 600
IsServiceError == outcome.kind = "raise" /\ outcome.exc = "WalrusAPIError"

\* The fields of the ServiceError the operation failed with
ErrorFields ==
    <<outcome.code, outcome.status, outcome.message, outcome.details>>

\* The body is a non-empty JSON mapping {"error": {...}}, its inner value a mapping
HasErrorMapping(response) ==
    /\ response.body.raw # <<>>
    /\ response.body.doc.valid
    /\ response.body.doc.top = "obj"
    /\ "error" \in response.body.doc.keys
    /\ response.body.doc.errType = "obj"

\* The exchange went one of the ways the claims name together: no request at
\* all, no response, a 2xx response, or a 4xx or 5xx response.
NamedExchange == ~Received \/ Is2xx(TheResponse) \/ Is4xx5xx(TheResponse)

\* C1: every public operation, whatever the HTTP exchange (2xx, 4xx or 5xx with
\* any body, no response), returns its success value or fails with one
\* ServiceError, or with a precondition error raised before any request; it
\* fails with no other error type and returns nothing after a failed exchange.
C1_ServiceErrorOrPreconditionOnly ==
    (Finished(PublicOps) /\ NamedExchange) =>
        \/ outcome.kind = "return" /\ Received /\ Is2xx(TheResponse)
        \/ IsServiceError
        \/ /\ outcome.kind = "raise"
           /\ outcome.exc \in {"FileNotFoundError", "ValueError"}
           /\ sent = <<>>

\* The fields the inner mapping of the body gives, with the defaults
ErrorFieldsOf(response) ==
    LET err == response.body.doc.err
    IN  <<IF "code" \in err.keys THEN err.code ELSE response.status_code,
          IF "status" \in err.keys THEN err.status ELSE "UNKNOWN",
          IF "message" \in err.keys THEN err.message ELSE <<>>,
          IF "details" \in err.keys THEN err.details ELSE <<>> >>

BodyReadingRetrievals == {"get_blob_by_object_id", "get_blob", "get_blob_as_stream"}

C4_AsFile404ReasonPhrase ==
    (/\ Finished({"get_blob_as_file"})
     /\ Received
     /\ TheResponse.status_code = 404
     /\ TheResponse.reason = "Not Found")
    => (/\ IsServiceError
        /\ ErrorFields = <<404, "Not Found",
                           <<"HTTP ", "4", "0", "4", ": ", "Not Found">>, <<>> >>
        /\ ~respOpen)

C4_Witness ==
    /\ Finished({"get_blob_as_file"})
    /\ Received
    /\ TheResponse.status_code = 404
    /\ TheResponse.reason = "Not Found"
    /\ HasErrorMapping(TheResponse)
    /\ TheResponse.body.doc.err.status = "NOT_FOUND"
    /\ outcome.status = "Not Found"

\* What the normalisation makes of an exchange whose response it can read
NormalisedFields(x) ==
    LET e == _handle_request_error(
                 IF x.kind = "failure" THEN ConnectionError(x.text)
                 ELSE HTTPError(x.response[1]), <<>>)
    IN  <<e.code, e.status, e.message, e.details>>

\* C5: for one failed exchange, get_blob_by_object_id, get_blob,
\* get_blob_as_stream, get_blob_as_file and put_blob fail with a ServiceError of
\* the same code, status, message and details: those the normalisation makes
\* of the exchange, whichever operation it is. (Stated for the exchanges whose
\* body is not of the shape {"error": <not a mapping>}.)
C5_SameFieldsWhicheverOperation ==
    (/\ Finished({"get_blob_by_object_id", "get_blob", "get_blob_as_stream",
                  "get_blob_as_file", "put_blob"})
     /\ sent # <<>>
     /\ \/ exchange.kind = "failure"
        \/ /\ Received
           /\ Is4xx5xx(TheResponse)
           /\ TheResponse.body.doc.errType \notin NonMappingErrTypes)
    => (IsServiceError /\ ErrorFields = NormalisedFields(exchange))

\* C6: put_blob_from_file on a path that is no existing regular file fails with
\* FileNotFound, put_blob_from_stream on a stream that is not readable with
\* ValueError; no HTTP request has been issued, and the error is no ServiceError.
C6_PreconditionBeforeNetwork ==
    /\ (Finished({"put_blob_from_file"}) /\ fs[call.path].type # "file")
       => (/\ outcome.kind = "raise"
           /\ outcome.exc = "FileNotFoundError"
           /\ sent = <<>>
           /\ exchange = NoExchange)
    /\ (Finished({"put_blob_from_stream"}) /\ ~call.stream.readable)
       => (/\ outcome.kind = "raise"
           /\ outcome.exc = "ValueError"
           /\ sent = <<>>
           /\ exchange = NoExchange)

C6_Witness ==
    /\ Finished({"put_blob_from_file"})
    /\ call.path = "d"
    /\ outcome.exc = "FileNotFoundError"
    /\ sent = <<>>

\* C9: a non-2xx response (here: 4xx or 5xx) whose body is empty, is not JSON,
\* or is JSON without the shape {"error": {...}} makes the operation fail with a
\* ServiceError of code = the status code, status = the reason phrase or
\* "UNKNOWN", message = "HTTP {code}: {status}" and no details.
C9_FallbackNormalisation ==
    (/\ Finished(PublicOps)
     /\ Received
     /\ Is4xx5xx(TheResponse)
     /\ ~HasErrorMapping(TheResponse))
    => LET status == IF TheResponse.reason = "" THEN "UNKNOWN"
                     ELSE TheResponse.reason
       IN  /\ IsServiceError
           /\ ErrorFields =
                 <<TheResponse.status_code, status,
                   <<"HTTP ">> \o str(TheResponse.status_code) \o <<": ", status>>,
                   <<>> >>

\* C10: an upload answered 2xx with a body that is not JSON raises the JSON
\* decode error itself, not a ServiceError.
C10_DecodeErrorRaisedAsSuch ==
    (/\ Finished({"put_blob", "put_blob_from_stream"})
     /\ Received
     /\ Is2xx(TheResponse)
     /\ ~TheResponse.body.doc.valid)
    => (outcome.kind = "raise" /\ outcome.exc = "JSONDecodeError")

Uploads == {"put_blob", "put_blob_from_file", "put_blob_from_stream"}

\* C2: what is uploaded through put_blob, put_blob_from_file or
\* put_blob_from_stream to a service that stores the body it receives comes
\* back unchanged from get_blob, get_blob_as_stream and get_blob_as_file under
\* the returned blob ID and from get_blob_by_object_id under the returned
\* object ID. (Of a stream, what it has still to yield is what is uploaded.)
C2_RoundTrip ==
    /\ (Finished(Uploads) /\ outcome.kind = "return")
       => (/\ uploads # <<>>
           /\ uploads[Len(uploads)].via = call.op
           /\ outcome.value.doc.blobId = BlobIds[Len(uploads)]
           /\ outcome.value.doc.objectId = ObjectIds[Len(uploads)])
    /\ \A i \in 1..Len(uploads) :
          /\ (Finished({"get_blob", "get_blob_as_stream"}) /\ call.id = BlobIds[i])
             => (outcome.kind = "return" /\ outcome.value.b = uploads[i].b)
          /\ (Finished({"get_blob_by_object_id"}) /\ call.id = ObjectIds[i])
             => (outcome.kind = "return" /\ outcome.value.b = uploads[i].b)
          /\ (Finished({"get_blob_as_file"}) /\ call.id = BlobIds[i]
                 /\ call.path # "d")
             => (outcome.kind = "return" /\ fs[call.path].content = uploads[i].b)

C2_Witness ==
    /\ Finished({"get_blob_as_file"})
    /\ outcome.kind = "return"
    /\ call.id = BlobIds[1]
    /\ uploads # <<>>
    /\ uploads[1].via = "put_blob_from_stream"
    /\ uploads[1].b = <<1, 0>>
    /\ fs[call.path].content = <<1, 0>>

\* The number a decimal numeral denotes
DigitValue(c) ==
    CASE c = "0" -> 0 [] c = "1" -> 1 [] c = "2" -> 2 [] c = "3" -> 3
      [] c = "4" -> 4 [] c = "5" -> 5 [] c = "6" -> 6 [] c = "7" -> 7
      [] c = "8" -> 8 [] c = "9" -> 9 [] OTHER -> -1

RECURSIVE NumeralValue(_)
NumeralValue(t) ==
    IF Len(t) = 1 THEN DigitValue(t[1])
    ELSE 10 * NumeralValue(SubSeq(t, 1, Len(t) - 1)) + DigitValue(t[Len(t)])

IsNumeralOf(t, n) ==
    LET digits == IF n < 0 THEN SubSeq(t, 2, Len(t)) ELSE t
    IN  /\ n < 0 => (t # <<>> /\ t[1] = "-")
        /\ digits # <<>>
        /\ \A i \in 1..Len(digits) : DigitValue(digits[i]) >= 0
        /\ (Len(digits) > 1 => digits[1] # "0")
        /\ NumeralValue(digits) = (IF n < 0 THEN 0 - n ELSE n)

OptionNames == {"encoding_type", "epochs", "deletable", "send_object_to"}

\* C7: the mapping _build_query_params produces has exactly the options that
\* were given as its keys; epochs is its base-10 numeral, deletable "true" or
\* "false", so deletable unset (no key) and deletable false ("false") differ.
C7_QueryParams ==
    call.op = "_build_query_params" =>
        LET o == call.options
        IN  /\ DOMAIN params = {k \in OptionNames : o[k] # None}
            /\ o.encoding_type # None
               => params["encoding_type"] = <<o.encoding_type[1]>>
            /\ o.epochs # None => IsNumeralOf(params["epochs"], o.epochs[1])
            /\ o.deletable = Some(TRUE) => params["deletable"] = <<"true">>
            /\ o.deletable = Some(FALSE) => params["deletable"] = <<"false">>
            /\ o.send_object_to # None
               => params["send_object_to"] = <<o.send_object_to[1]>>

C7_Witness ==
    /\ call.op = "_build_query_params"
    /\ call.options.deletable = Some(FALSE)
    /\ call.options.epochs = Some(10)
    /\ call.options.encoding_type = None
    /\ call.options.send_object_to = None
    /\ DOMAIN params = {"epochs", "deletable"}
    /\ params["deletable"] = <<"false">>
    /\ params["epochs"] = <<"1", "0">>

EndsWithSlash(u) == u # <<>> /\ u[Len(u)] = "/"

\* stored is given less all its trailing "/"
IsStripped(stored, given) ==
    /\ ~EndsWithSlash(stored)
    /\ Len(stored) <= Len(given)
    /\ \A i \in 1..Len(given) :
          IF i <= Len(stored) THEN given[i] = stored[i] ELSE given[i] = "/"

\* C8, as claimed: a base URL that ends in one or more "/" is stored with
\* exactly one "/" removed.
C8_Original_ExactlyOneSlashRemoved ==
    /\ EndsWithSlash(ctor.publisher)
       => publisher_base_url = SubSeq(ctor.publisher, 1, Len(ctor.publisher) - 1)
    /\ EndsWithSlash(ctor.aggregator)
       => aggregator_base_url = SubSeq(ctor.aggregator, 1, Len(ctor.aggregator) - 1)

\* C8, amended: each base URL is stored less all its trailing "/" (unchanged if
\* it has none), and every request goes to the stored URL followed by the
\* operation's path; so clients built from u and from u + "/" issue the same
\* request URLs.
C8_TrailingSlashesStripped ==
    /\ IsStripped(publisher_base_url, ctor.publisher)
    /\ IsStripped(aggregator_base_url, ctor.aggregator)
    /\ ~EndsWithSlash(ctor.publisher) => publisher_base_url = ctor.publisher
    /\ ~EndsWithSlash(ctor.aggregator) => aggregator_base_url = ctor.aggregator
    /\ __init__(ctor.publisher \o <<"/">>, ctor.aggregator \o <<"/">>, None)
          = __init__(ctor.publisher, ctor.aggregator, None)
    /\ sent # <<>> =>
          sent[1].url =
              (IF sent[1].method = "PUT" THEN publisher_base_url
               ELSE aggregator_base_url)
              \o (CASE call.op \in Uploads -> <<"/v1/blobs">>
                    [] call.op = "get_blob_by_object_id"
                         -> <<"/v1/blobs/by-object-id/", call.id>>
                    [] OTHER -> <<"/v1/blobs/", call.id>>)

C8_Witness ==
    /\ ctor.publisher = <<"h", "/", "/">>
    /\ publisher_base_url = <<"h">>
    /\ sent # <<>>
    /\ sent[1].url = <<"h", "/v1/blobs">>

\* C11: get_blob_as_file has released what it acquired in every state it ends
\* in: after normal completion, a 4xx or 5xx status, a transport failure before
\* or in the middle of the chunks, or a failure to open or to write the file,
\* neither the response nor the file handle is open; they are open only while
\* the operation is in its loop.
C11_ReleasedOnEveryExit ==
    /\ Finished({"get_blob_as_file"}) => (~respOpen /\ ~fileOpen)
    /\ (call.op = "get_blob_as_file" /\ (respOpen \/ fileOpen))
       => (pc = "streaming" /\ outcome = Running)
    /\ pc = "idle" => ~fileOpen

C11_Witness ==
    /\ Finished({"get_blob_as_file"})
    /\ IsServiceError
    /\ outcome.status = "REQUEST_FAILED"
    /\ Received
    /\ Is2xx(TheResponse)
    /\ fs[call.path].type = "file"
    /\ fs[call.path].content # <<>>
    /\ Len(fs[call.path].content) < Len(TheResponse.body.raw)
    /\ ~respOpen
    /\ ~fileOpen

====
